---- MODULE Spec2Model ----
(***************************************************************************)
(* Model of resolve_api.py: a script that asks a running DaVinci Resolve   *)
(* for the name of the current project, prints one result and exits with   *)
(* a status code.  Every statement of the script is one action; the        *)
(* responses of the scripting module (import, scriptapp, GetProjectManager,*)
(* GetCurrentProject, GetName) are the inputs, drawn from small sets.      *)
(*                                                                         *)
(* A text is a sequence of symbols; the symbol "\n" is the line break.     *)
(* A Python value is a record [tag, text]: None, an object, or a str.      *)
(* The exceptions the scripting module raises are subclasses of Exception; *)
(* SystemExit, raised by sys.exit, is a BaseException that is not one.     *)
(***************************************************************************)
EXTENDS Integers, Sequences, FiniteSets

VARIABLES pc, platform, stdout_encoding, dvr_script, resolve, pm, project,
          project_name, exc, e, stdout, exitCode, traceback, calls

vars == <<pc, platform, stdout_encoding, dvr_script, resolve, pm, project,
          project_name, exc, e, stdout, exitCode, traceback, calls>>

\* ---------------------------------------------------------------- bounds
MaxLen == 2

Alphabet == {"a", "\n"}

BoundedTexts == UNION {[1..n -> Alphabet] : n \in 0..MaxLen}

Texts == BoundedTexts \cup {<<"MyProject">>}

Messages == BoundedTexts \cup {<<"timeout">>}

\* ---------------------------------------------------------- Python values
Unbound == [tag |-> "unbound", text |-> <<>>]

PyNone == [tag |-> "none", text |-> <<>>]

Obj == [tag |-> "obj", text |-> <<>>]

Str(t) == [tag |-> "str", text |-> t]

\* `if x:` -- the truth value of x
Truthy_Always(v) == TRUE

Truthy(v) ==
    CASE v.tag = "obj" -> TRUE
      [] v.tag = "str" -> Len(v.text) > 0
      [] OTHER -> FALSE

\* str(x), as print and the f-string apply it
PyStr(v) ==
    CASE v.tag = "str" -> v.text
      [] v.tag = "none" -> <<"None">>
      [] OTHER -> <<"<object>">>

\* print(x): str(x) followed by a line break, appended to the stream
PyPrint(out, v) == out \o PyStr(v) \o <<"\n">>

\* ------------------------------------------------------------ exceptions
SurfaceExcKinds == {"ImportError", "RuntimeError"}

ExceptionSubclasses == SurfaceExcKinds \cup {"AttributeError", "NameError"}

NoExc == [kind |-> "none", msg |-> <<>>, code |-> 0, at |-> "none", inTry |-> FALSE]

\* `except Exception as e` -- which raised classes the clause catches
Catches_OnlyRuntimeError(kind) == kind = "RuntimeError"

Catches_Nothing(kind) == FALSE

Catches_BaseException(kind) == TRUE

Catches(kind) == kind \in ExceptionSubclasses

\* f"ERROR:{e}"
FormatError_NoMessage(ex) == <<"ERROR:">>

FormatError(ex) == <<"ERROR:">> \o ex.msg

NO_PROJECT == <<"NO_PROJECT">>

ExitFound == 0

ExitNotFound == 1

ExitError == 2

\* ------------------------------------------------- responses of the surface
Ret(v) == [type |-> "return", value |-> v, kind |-> "none", msg |-> <<>>]

Raise(k, m) == [type |-> "raise", value |-> Unbound, kind |-> k, msg |-> m]

SurfaceRaises == {Raise(k, m) : k \in SurfaceExcKinds, m \in Messages}

ImportResponses == {Ret(Obj)} \cup SurfaceRaises

HandleResponses == {Ret(Obj), Ret(PyNone)} \cup SurfaceRaises

NameResponses == {Ret(Str(t)) : t \in Texts} \cup {Ret(PyNone)} \cup SurfaceRaises

\* receiver.method(): the interpreter looks the receiver up first
Call(receiver, rname, method, r) ==
    CASE receiver.tag = "unbound" ->
            Raise("NameError", <<"name '", rname, "' is not defined">>)
      [] receiver.tag = "none" ->
            Raise("AttributeError",
                  <<"'NoneType' object has no attribute '", method, "'">>)
      [] OTHER -> r

\* line 31 to line 32: the name GetName returned is printed without a test
NameAccepted_Truthy(v) == Truthy(v)

NameAccepted(v) == TRUE

\* ------------------------------------------------------ statement order
ChainOrder == <<"import", "scriptapp", "GetProjectManager", "GetCurrentProject", "GetName">>

After_Swapped(step) ==
    CASE step = "setup" -> "import"
      [] step = "import" -> "scriptapp"
      [] step = "scriptapp" -> "GetCurrentProject"
      [] step = "GetCurrentProject" -> "GetProjectManager"
      [] step = "GetProjectManager" -> "GetName"
      [] step = "GetName" -> "print_name"
      [] step = "print_name" -> "exit_found"
      [] step = "print_no_project" -> "exit_not_found"
      [] step = "handler_print" -> "exit_error"

After(step) ==
    CASE step = "setup" -> "import"
      [] step = "import" -> "scriptapp"
      [] step = "scriptapp" -> "GetProjectManager"
      [] step = "GetProjectManager" -> "GetCurrentProject"
      [] step = "GetCurrentProject" -> "GetName"
      [] step = "GetName" -> "print_name"
      [] step = "print_name" -> "exit_found"
      [] step = "print_no_project" -> "exit_not_found"
      [] step = "handler_print" -> "exit_error"

\* -------------------------------------------------------------- the script
Init ==
    /\ pc = "setup"
    /\ platform \in {"win32", "linux"}
    /\ stdout_encoding = "locale"
    /\ dvr_script = Unbound
    /\ resolve = Unbound
    /\ pm = Unbound
    /\ project = Unbound
    /\ project_name = Unbound
    /\ exc = NoExc
    /\ e = NoExc
    /\ stdout = <<>>
    /\ exitCode = 0
    /\ traceback = FALSE
    /\ calls = <<>>

\* a raise inside the try block at `step`
RaisedBy(r, step) ==
    [kind |-> r.kind, msg |-> r.msg, code |-> 0, at |-> step, inTry |-> TRUE]

\* lines 5-8: re-wrap the streams on Windows
Setup ==
    /\ pc = "setup"
    /\ stdout_encoding' = IF platform = "win32" THEN "utf-8" ELSE stdout_encoding
    /\ pc' = After("setup")
    /\ UNCHANGED <<platform, dvr_script, resolve, pm, project, project_name,
                   exc, e, stdout, exitCode, traceback, calls>>

\* lines 12-23: extend sys.path and import the scripting module
Import ==
    /\ pc = "import"
    /\ \E r \in ImportResponses :
        /\ calls' = Append(calls, "import")
        /\ IF r.type = "raise"
           THEN /\ exc' = RaisedBy(r, "import")
                /\ pc' = "raised"
                /\ UNCHANGED dvr_script
           ELSE /\ dvr_script' = r.value
                /\ pc' = After("import")
                /\ UNCHANGED exc
    /\ UNCHANGED <<platform, stdout_encoding, resolve, pm, project, project_name,
                   e, stdout, exitCode, traceback>>

\* lines 25-26: resolve = dvr_script.scriptapp("Resolve"); if resolve:
ScriptApp ==
    /\ pc = "scriptapp"
    /\ \E r \in HandleResponses :
        LET res == Call(dvr_script, "dvr_script", "scriptapp", r) IN
        /\ calls' = Append(calls, "scriptapp")
        /\ IF res.type = "raise"
           THEN /\ exc' = RaisedBy(res, "scriptapp")
                /\ pc' = "raised"
                /\ UNCHANGED resolve
           ELSE /\ resolve' = res.value
                /\ pc' = IF Truthy(res.value) THEN After("scriptapp")
                                              ELSE "print_no_project"
                /\ UNCHANGED exc
    /\ UNCHANGED <<platform, stdout_encoding, dvr_script, pm, project, project_name,
                   e, stdout, exitCode, traceback>>

\* lines 27-28: pm = resolve.GetProjectManager(); if pm:
GetProjectManager ==
    /\ pc = "GetProjectManager"
    /\ \E r \in HandleResponses :
        LET res == Call(resolve, "resolve", "GetProjectManager", r) IN
        /\ calls' = Append(calls, "GetProjectManager")
        /\ IF res.type = "raise"
           THEN /\ exc' = RaisedBy(res, "GetProjectManager")
                /\ pc' = "raised"
                /\ UNCHANGED pm
           ELSE /\ pm' = res.value
                /\ pc' = IF Truthy(res.value) THEN After("GetProjectManager")
                                              ELSE "print_no_project"
                /\ UNCHANGED exc
    /\ UNCHANGED <<platform, stdout_encoding, dvr_script, resolve, project,
                   project_name, e, stdout, exitCode, traceback>>

\* lines 29-30: project = pm.GetCurrentProject(); if project:
GetCurrentProject ==
    /\ pc = "GetCurrentProject"
    /\ \E r \in HandleResponses :
        LET res == Call(pm, "pm", "GetCurrentProject", r) IN
        /\ calls' = Append(calls, "GetCurrentProject")
        /\ IF res.type = "raise"
           THEN /\ exc' = RaisedBy(res, "GetCurrentProject")
                /\ pc' = "raised"
                /\ UNCHANGED project
           ELSE /\ project' = res.value
                /\ pc' = IF Truthy(res.value) THEN After("GetCurrentProject")
                                              ELSE "print_no_project"
                /\ UNCHANGED exc
    /\ UNCHANGED <<platform, stdout_encoding, dvr_script, resolve, pm,
                   project_name, e, stdout, exitCode, traceback>>

\* line 31: project_name = project.GetName()   (no test of the result)
GetName ==
    /\ pc = "GetName"
    /\ \E r \in NameResponses :
        LET res == Call(project, "project", "GetName", r) IN
        /\ calls' = Append(calls, "GetName")
        /\ IF res.type = "raise"
           THEN /\ exc' = RaisedBy(res, "GetName")
                /\ pc' = "raised"
                /\ UNCHANGED project_name
           ELSE /\ project_name' = res.value
                /\ pc' = IF NameAccepted(res.value) THEN After("GetName")
                                                    ELSE "print_no_project"
                /\ UNCHANGED exc
    /\ UNCHANGED <<platform, stdout_encoding, dvr_script, resolve, pm, project,
                   e, stdout, exitCode, traceback>>

\* line 32: print(project_name)
PrintName ==
    /\ pc = "print_name"
    /\ stdout' = PyPrint(stdout, project_name)
    /\ pc' = After("print_name")
    /\ UNCHANGED <<platform, stdout_encoding, dvr_script, resolve, pm, project,
                   project_name, exc, e, exitCode, traceback, calls>>

\* line 33: sys.exit(0) raises SystemExit(0) inside the try block
ExitOnFound ==
    /\ pc = "exit_found"
    /\ exc' = [kind |-> "SystemExit", msg |-> <<"0">>, code |-> ExitFound,
               at |-> "exit_found", inTry |-> TRUE]
    /\ pc' = "raised"
    /\ UNCHANGED <<platform, stdout_encoding, dvr_script, resolve, pm, project,
                   project_name, e, stdout, exitCode, traceback, calls>>

\* line 35: print("NO_PROJECT")
PrintNoProject ==
    /\ pc = "print_no_project"
    /\ stdout' = PyPrint(stdout, Str(NO_PROJECT))
    /\ pc' = After("print_no_project")
    /\ UNCHANGED <<platform, stdout_encoding, dvr_script, resolve, pm, project,
                   project_name, exc, e, exitCode, traceback, calls>>

\* line 36: sys.exit(1) raises SystemExit(1) inside the try block
ExitOnNotFound ==
    /\ pc = "exit_not_found"
    /\ exc' = [kind |-> "SystemExit", msg |-> <<"1">>, code |-> ExitNotFound,
               at |-> "exit_not_found", inTry |-> TRUE]
    /\ pc' = "raised"
    /\ UNCHANGED <<platform, stdout_encoding, dvr_script, resolve, pm, project,
                   project_name, e, stdout, exitCode, traceback, calls>>

\* line 37: an exception raised in the try block reaches the except clause
ExceptClause ==
    /\ pc = "raised"
    /\ exc.inTry
    /\ Catches(exc.kind)
    /\ e' = exc
    /\ exc' = NoExc
    /\ pc' = "handler_print"
    /\ UNCHANGED <<platform, stdout_encoding, dvr_script, resolve, pm, project,
                   project_name, stdout, exitCode, traceback, calls>>

\* line 38: print(f"ERROR:{e}")
HandlerPrint ==
    /\ pc = "handler_print"
    /\ stdout' = PyPrint(stdout, Str(FormatError(e)))
    /\ pc' = After("handler_print")
    /\ UNCHANGED <<platform, stdout_encoding, dvr_script, resolve, pm, project,
                   project_name, exc, e, exitCode, traceback, calls>>

\* line 39: sys.exit(2) raises SystemExit(2) outside the try block
ExitOnError ==
    /\ pc = "exit_error"
    /\ exc' = [kind |-> "SystemExit", msg |-> <<"2">>, code |-> ExitError,
               at |-> "exit_error", inTry |-> FALSE]
    /\ pc' = "raised"
    /\ UNCHANGED <<platform, stdout_encoding, dvr_script, resolve, pm, project,
                   project_name, e, stdout, exitCode, traceback, calls>>

\* an exception no clause catches ends the process: SystemExit with its code,
\* anything else with a traceback on stderr and status 1
Terminate ==
    /\ pc = "raised"
    /\ ~(exc.inTry /\ Catches(exc.kind))
    /\ exitCode' = IF exc.kind = "SystemExit" THEN exc.code ELSE 1
    /\ traceback' = (exc.kind # "SystemExit")
    /\ pc' = "done"
    /\ UNCHANGED <<platform, stdout_encoding, dvr_script, resolve, pm, project,
                   project_name, exc, e, stdout, calls>>

Next ==
    \/ Setup
    \/ Import
    \/ ScriptApp
    \/ GetProjectManager
    \/ GetCurrentProject
    \/ GetName
    \/ PrintName
    \/ ExitOnFound
    \/ PrintNoProject
    \/ ExitOnNotFound
    \/ ExceptClause
    \/ HandlerPrint
    \/ ExitOnError
    \/ Terminate

Spec == Init /\ [][Next]_vars

\* ------------------------------------------------------------- properties
Done == pc = "done"

\* the traversal or acquisition exception of this run, caught or not
SurfaceExc == IF e.kind # "none" THEN e ELSE exc

ChainSteps == {ChainOrder[i] : i \in 1..Len(ChainOrder)}

TraversalSteps == ChainSteps \ {"import"}

ImportFailed == Len(calls) >= 1 /\ dvr_script = Unbound

SomeHandleNull == resolve = PyNone \/ pm = PyNone \/ project = PyNone

NewlineCount(t) == Cardinality({i \in 1..Len(t) : t[i] = "\n"})

\* the value each step of the chain bound, by position in ChainOrder
StepValue(i) ==
    CASE i = 1 -> dvr_script
      [] i = 2 -> resolve
      [] i = 3 -> pm
      [] i = 4 -> project
      [] OTHER -> project_name

\* C1: a finished run has one of exactly three results: status 0 with the
\* project name (a text) as the only line, status 1 with NO_PROJECT, or
\* status 2 with ERROR:<message>; there is no traceback and no other pairing.
C1_OutcomeContract ==
    Done =>
      /\ ~traceback
      /\ \/ /\ exitCode = 0
            /\ project_name.tag = "str"
            /\ stdout = project_name.text \o <<"\n">>
         \/ /\ exitCode = 1
            /\ stdout = <<"NO_PROJECT", "\n">>
         \/ /\ exitCode = 2
            /\ e.kind # "none"
            /\ stdout = <<"ERROR:">> \o e.msg \o <<"\n">>

\* C2: when the import of the scripting module raises, no traversal step is
\* ever attempted and the run ends with ERROR:<message> and status 2.
C2_AcquisitionFailureIsError ==
    ImportFailed =>
      /\ calls = <<"import">>
      /\ Done => /\ exitCode = 2
                 /\ e.at = "import"
                 /\ stdout = <<"ERROR:">> \o e.msg \o <<"\n">>

C2_Witness == Done /\ ImportFailed /\ exitCode = 2 /\ e.kind = "ImportError"

\* C3: when the application, manager or project handle comes back null
\* without a raise, the run ends with NO_PROJECT and status 1, never an error.
C3_NullHandleIsNotFound ==
    (Done /\ SomeHandleNull) =>
      /\ exitCode = 1
      /\ stdout = <<"NO_PROJECT", "\n">>
      /\ e = NoExc
      /\ ~traceback

C3_Witness == Done /\ resolve = PyNone /\ exitCode = 1 /\ Len(calls) = 2

\* C4: when a step of the chain raises with message m, stdout is exactly
\* ERROR:m and the status is 2, for the import as for the traversal steps.
C4_RaiseRendersMessage ==
    (Done /\ SurfaceExc.at \in ChainSteps) =>
      /\ exitCode = 2
      /\ stdout = <<"ERROR:">> \o SurfaceExc.msg \o <<"\n">>

C4_Witness ==
    /\ Done
    /\ e.at = "GetProjectManager"
    /\ e.msg = <<"timeout">>
    /\ stdout = <<"ERROR:", "timeout", "\n">>
    /\ exitCode = 2

\* C5: when GetName returns null, the run ends with NO_PROJECT and status 1.
C5_NullNameIsNotFound ==
    (Done /\ project_name = PyNone) =>
      /\ exitCode = 1
      /\ stdout = <<"NO_PROJECT", "\n">>

\* C6: when the chain resolves and the name is a text n, stdout is exactly
\* the line n and the status is 0, also for the empty text.
C6_NameIsPrinted ==
    (Done /\ project_name.tag = "str") =>
      /\ exitCode = 0
      /\ stdout = project_name.text \o <<"\n">>
      /\ e = NoExc

C6_Witness ==
    /\ Done
    /\ project_name = Str(<<>>)
    /\ stdout = <<"\n">>
    /\ exitCode = 0

\* C7: a finished run has written exactly one line to standard output.
C7_ExactlyOneLine == Done => NewlineCount(stdout) = 1

\* C8: no run ends with an uncaught exception: every exception a step of the
\* chain raises is raised inside the try block, caught, and ends in status 2.
C8_NothingPropagates ==
    /\ (pc = "raised" /\ exc.kind \in SurfaceExcKinds) => exc.inTry
    /\ Done =>
         /\ ~traceback
         /\ exc.kind = "SystemExit"
         /\ SurfaceExc.kind \in SurfaceExcKinds =>
              (exitCode = 2 /\ e.kind \in SurfaceExcKinds)

C8_Witness ==
    /\ Done
    /\ e.kind = "RuntimeError"
    /\ e.at = "GetName"
    /\ exitCode = 2
    /\ ~traceback

\* C9: the steps attempted are a prefix of import, scriptapp,
\* GetProjectManager, GetCurrentProject, GetName, each at most once, and a
\* step is attempted only when every earlier step returned a present value.
C9_StrictOrder ==
    /\ Len(calls) <= Len(ChainOrder)
    /\ \A i \in 1..Len(calls) : i <= Len(ChainOrder) => calls[i] = ChainOrder[i]
    /\ \A i \in 1..(Len(calls) - 1) : StepValue(i).tag = "obj"
    /\ (SurfaceExc.at \in ChainSteps) => calls[Len(calls)] = SurfaceExc.at
    /\ SomeHandleNull => StepValue(Len(calls)) = PyNone

C9_Witness == Done /\ calls = ChainOrder /\ exitCode = 0

\* C10: sys.exit inside the try block is not intercepted by the except
\* clause: after the name is written the status is 0 and nothing follows,
\* after NO_PROJECT is written the status is 1 and nothing follows, and
\* status 2 is reached only when a step of the chain raised before any write.
C10_ExitNotIntercepted ==
    /\ e.kind # "SystemExit"
    /\ pc = "handler_print" => stdout = <<>>
    /\ (Done /\ project_name # Unbound) =>
          (exitCode = 0 /\ stdout = PyStr(project_name) \o <<"\n">>
             /\ exc.at = "exit_found")
    /\ (Done /\ SomeHandleNull) =>
          (exitCode = 1 /\ stdout = <<"NO_PROJECT", "\n">>
             /\ exc.at = "exit_not_found")
    /\ (Done /\ exitCode = 2) => (e.at \in ChainSteps /\ exc.at = "exit_error")

C10_Witness == Done /\ exc.at = "exit_found" /\ exitCode = 0 /\ Len(stdout) > 0

====
